---- MODULE Spec2Model ----
(***************************************************************************)
(* Model of backend/scraper.py (FirecrawlScraper): the cache read-through  *)
(* and write-through of scrape_subreddit, the retry loop of                *)
(* firecrawl_scrape, and the markdown normalisation of                     *)
(* process_firecrawl_response / extract_posts_from_markdown; and of         *)
(* backend/analyzer.py (RedditAnalyzer): the pain-point extraction of      *)
(* extract_pain_points / process_subreddit_data and the content ideas of   *)
(* generate_content_ideas with its service call and its templates.         *)
(*                                                                         *)
(* Python strings are sequences of one-character strings; Python values    *)
(* whose type decides a branch are tagged records (PyStr, PyNone, PyInt).  *)
(* A Python call that can raise returns Ok(value) or Raise(type, message). *)
(***************************************************************************)
EXTENDS Integers, Sequences, FiniteSets, TLC

\* ------------------------------------------------------------------------
\* Python str operations used by scraper.py and analyzer.py
\* ------------------------------------------------------------------------

NL == "\n"

\* str.strip() with no argument strips ASCII whitespace
Whitespace == {" ", NL, "\t", "\r"}

\* least i >= from with s[i .. i+len(sep)-1] = sep, or 0 (str.find, 1-based)
FindFrom(s, sep, from) ==
    LET hits == {i \in from..(Len(s) - Len(sep) + 1) : SubSeq(s, i, i + Len(sep) - 1) = sep}
    IN  IF hits = {} THEN 0 ELSE CHOOSE i \in hits : \A j \in hits : i <= j

\* sub in s
Contains(s, sub) == FindFrom(s, sub, 1) # 0

\* s.startswith(p)
StartsWith(s, p) == Len(s) >= Len(p) /\ SubSeq(s, 1, Len(p)) = p

RECURSIVE Split(_, _)
\* s.split(sep): always at least one part
Split(s, sep) ==
    LET i == FindFrom(s, sep, 1)
    IN  IF i = 0 THEN <<s>>
        ELSE <<SubSeq(s, 1, i - 1)>> \o Split(SubSeq(s, i + Len(sep), Len(s)), sep)

RECURSIVE Replace(_, _, _)
\* s.replace(old, new): left to right, non-overlapping
Replace(s, old, new) ==
    LET i == FindFrom(s, old, 1)
    IN  IF i = 0 THEN s
        ELSE SubSeq(s, 1, i - 1) \o new \o Replace(SubSeq(s, i + Len(old), Len(s)), old, new)

\* s.lstrip()
LStrip(s) ==
    LET solid == {i \in 1..Len(s) : s[i] \notin Whitespace}
    IN  IF solid = {} THEN <<>>
        ELSE SubSeq(s, CHOOSE i \in solid : \A j \in solid : i <= j, Len(s))

\* s.rstrip()
RStrip(s) ==
    LET solid == {i \in 1..Len(s) : s[i] \notin Whitespace}
    IN  IF solid = {} THEN <<>>
        ELSE SubSeq(s, 1, CHOOSE i \in solid : \A j \in solid : i >= j)

\* s.strip()
Strip(s) == RStrip(LStrip(s))

RECURSIVE Join(_, _)
\* sep.join(parts)
Join(parts, sep) ==
    IF parts = <<>> THEN <<>>
    ELSE IF Len(parts) = 1 THEN parts[1]
    ELSE parts[1] \o sep \o Join(Tail(parts), sep)

\* the upper-case ASCII letters and their lower-case forms
UpperToLower ==
    [c \in {"A", "B", "C", "D", "E", "F", "G", "H", "I", "J", "K", "L", "M",
            "N", "O", "P", "Q", "R", "S", "T", "U", "V", "W", "X", "Y", "Z"} |->
        CASE c = "A" -> "a" [] c = "B" -> "b" [] c = "C" -> "c" [] c = "D" -> "d"
          [] c = "E" -> "e" [] c = "F" -> "f" [] c = "G" -> "g" [] c = "H" -> "h"
          [] c = "I" -> "i" [] c = "J" -> "j" [] c = "K" -> "k" [] c = "L" -> "l"
          [] c = "M" -> "m" [] c = "N" -> "n" [] c = "O" -> "o" [] c = "P" -> "p"
          [] c = "Q" -> "q" [] c = "R" -> "r" [] c = "S" -> "s" [] c = "T" -> "t"
          [] c = "U" -> "u" [] c = "V" -> "v" [] c = "W" -> "w" [] c = "X" -> "x"
          [] c = "Y" -> "y" [] c = "Z" -> "z"]

\* s.lower()
Lower(s) == [i \in 1..Len(s) |-> IF s[i] \in DOMAIN UpperToLower THEN UpperToLower[s[i]] ELSE s[i]]

Digit == <<"0", "1", "2", "3", "4", "5", "6", "7", "8", "9">>

RECURSIVE Str(_)
\* str(n) of a natural number, as an f-string formats it
Str(n) == IF n < 10 THEN <<Digit[n + 1]>> ELSE Str(n \div 10) \o <<Digit[(n % 10) + 1]>>

\* ------------------------------------------------------------------------
\* Python values and exceptions
\* ------------------------------------------------------------------------

PyStr(s) == [t |-> "str", v |-> s]
PyNone == [t |-> "none"]
PyInt(n) == [t |-> "int", v |-> n]
PyDict(d) == [t |-> "dict", v |-> d]

Ok(v) == [ok |-> TRUE, val |-> v]
Raise(type, msg) == [ok |-> FALSE, exc |-> [type |-> type, msg |-> msg]]

\* ------------------------------------------------------------------------
\* String literals of scraper.py
\* ------------------------------------------------------------------------

H2 == <<"#", "#", " ">>
SectionSep == <<NL, "#", "#", " ">>
CommentSep == <<NL, "#", "#", "#", " ">>
ColonSpace == <<":", " ">>
RPrefix == <<"r", "/">>
PostIdPrefix == <<"p", "o", "s", "t", "_">>
CommentIdPrefix == <<"c", "o", "m", "m", "e", "n", "t", "_">>
Underscore == <<"_">>

MainContentTitle ==
    <<"M","a","i","n"," ","C","o","n","t","e","n","t">>

SamplePostPrefix ==
    <<"S","a","m","p","l","e"," ","p","o","s","t"," ">>

SamplePostMiddle ==
    <<" ","a","b","o","u","t"," ","c","h","a","l","l","e","n","g","e","s"," ","i","n"," ","r",
      "/">>

UrlPrefix ==
    <<"h","t","t","p","s",":","/","/","w","w","w",".","r","e","d","d","i","t",".","c","o","m",
      "/","r","/">>

UrlComments ==
    <<"/","c","o","m","m","e","n","t","s","/">>

UrlSample ==
    <<"/","c","o","m","m","e","n","t","s","/","s","a","m","p","l","e","_">>

UrlHot ==
    <<"/","h","o","t","/">>

DummyContent ==
    <<"P","a","r","e","n","t","s"," ","f","a","c","e"," ","m","a","n","y"," ","c","h","a","l",
      "l","e","n","g","e","s"," ","w","i","t","h"," ","n","e","u","r","o","d","i","v","e","r",
      "g","e","n","t"," ","c","h","i","l","d","r","e","n","."," ","I","t","'","s"," ","a"," ",
      "s","t","r","u","g","g","l","e"," ","t","o"," ","f","i","n","d"," ","t","h","e"," ","r",
      "i","g","h","t"," ","s","u","p","p","o","r","t"," ","a","n","d"," ","r","e","s","o","u",
      "r","c","e","s","."," ","T","h","e"," ","s","c","h","o","o","l"," ","s","y","s","t","e",
      "m"," ","c","a","n"," ","b","e"," ","e","s","p","e","c","i","a","l","l","y"," ","d","i",
      "f","f","i","c","u","l","t"," ","t","o"," ","n","a","v","i","g","a","t","e","."," ","F",
      "i","n","d","i","n","g"," ","t","i","m","e"," ","f","o","r"," ","s","e","l","f","-","c",
      "a","r","e"," ","i","s"," ","a"," ","p","r","o","b","l","e","m"," ","m","a","n","y"," ",
      "p","a","r","e","n","t","s"," ","m","e","n","t","i","o","n",".">>

DummyComment1 ==
    <<"I"," ","s","t","r","u","g","g","l","e"," ","w","i","t","h"," ","t","h","i","s"," ","t",
      "o","o","."," ","I","t","'","s"," ","s","o"," ","h","a","r","d"," ","t","o"," ","f","i",
      "n","d"," ","g","o","o","d"," ","r","e","s","o","u","r","c","e","s",".">>

DummyComment2 ==
    <<"H","a","v","e"," ","y","o","u"," ","t","r","i","e","d"," ","t","h","i","s"," ","a","p",
      "p","r","o","a","c","h","?"," ","I","t"," ","h","e","l","p","e","d"," ","w","i","t","h",
      " ","o","u","r"," ","c","h","a","l","l","e","n","g","e","s",".">>

\* the content-length threshold below which placeholder posts are returned
MinContentLen == 100

\* the number of placeholder posts
DummyPostCount == 5

\* ------------------------------------------------------------------------
\* FirecrawlScraper.extract_posts_from_markdown
\* ------------------------------------------------------------------------

\* one placeholder post (loop body of `for i in range(5)`)
DummyPost(i, subreddit) ==
    [id |-> PostIdPrefix \o Str(i),
     title |-> SamplePostPrefix \o Str(i) \o SamplePostMiddle \o subreddit,
     content |-> DummyContent,
     url |-> UrlPrefix \o subreddit \o UrlSample \o Str(i),
     score |-> 100 - (i * 10),
     comments |-> <<
        [id |-> CommentIdPrefix \o Str(i) \o Underscore \o <<"1">>,
         content |-> DummyComment1,
         score |-> 50 - (i * 5)],
        [id |-> CommentIdPrefix \o Str(i) \o Underscore \o <<"2">>,
         content |-> DummyComment2,
         score |-> 30 - (i * 3)] >>]

DummyPosts(subreddit) == [k \in 1..DummyPostCount |-> DummyPost(k - 1, subreddit)]

\* one comment of a section (loop body over comment_blocks[1:])
CommentOf(comment_block, section_idx, comment_idx) ==
    LET comment_lines == Split(comment_block, <<NL>>)
        comment_title == Strip(comment_lines[1])
        comment_content == Strip(Join(Tail(comment_lines), <<NL>>))
    IN  [id |-> CommentIdPrefix \o Str(section_idx) \o Underscore \o Str(comment_idx),
         content |-> comment_title \o ColonSpace \o comment_content,
         score |-> 50 - (comment_idx * 5)]

\* the post built from one non-empty section (loop body over sections)
PostOf(section, section_idx, subreddit) ==
    LET main == section_idx = 0 /\ ~StartsWith(section, H2)
        lines == Split(section, <<NL>>)
        title == IF main THEN MainContentTitle ELSE Replace(Strip(lines[1]), H2, <<>>)
        content == IF main THEN section ELSE Strip(Join(Tail(lines), <<NL>>))
        comment_blocks == Split(content, CommentSep)
    IN  [id |-> PostIdPrefix \o Str(section_idx),
         title |-> title,
         content |-> IF Len(comment_blocks) > 1 THEN Strip(comment_blocks[1]) ELSE content,
         url |-> UrlPrefix \o subreddit \o UrlComments \o Str(section_idx),
         score |-> 100 - (section_idx * 10),
         comments |-> [j \in 1..(Len(comment_blocks) - 1) |->
                          CommentOf(comment_blocks[j + 1], section_idx, j - 1)]]

\* the section parser: the part of extract_posts_from_markdown after the
\* placeholder branch
ParseSections(text, subreddit) ==
    LET sections == Split(text, SectionSep)
        indexed == [i \in 1..Len(sections) |-> [section |-> sections[i], idx |-> i - 1]]
        kept == SelectSeq(indexed, LAMBDA e : Strip(e.section) # <<>>)
    IN  [k \in 1..Len(kept) |-> PostOf(kept[k].section, kept[k].idx, subreddit)]

\* `not markdown_content`
Falsy(x) ==
    \/ x.t = "none"
    \/ x.t = "str" /\ x.v = <<>>
    \/ x.t = "int" /\ x.v = 0

\* a threshold test that also sends a blob of exactly MinContentLen characters
\* to the placeholder branch
TooShortInclusive(text) == Len(text) <= MinContentLen

\* `len(markdown_content) < 100`
TooShort(text) == Len(text) < MinContentLen

extract_posts_from_markdown(markdown_content, subreddit) ==
    IF Falsy(markdown_content) THEN Ok(DummyPosts(subreddit))
    ELSE IF markdown_content.t # "str" THEN Raise("TypeError", <<>>)
    ELSE IF TooShort(markdown_content.v) THEN Ok(DummyPosts(subreddit))
    ELSE Ok(ParseSections(markdown_content.v, subreddit))

\* ------------------------------------------------------------------------
\* FirecrawlScraper.process_firecrawl_response
\* ------------------------------------------------------------------------

\* processed_data as initialised
EmptyProcessed(subreddit) ==
    [posts |-> <<>>,
     metadata |-> [subreddit |-> subreddit, pages_scraped |-> 1, total_posts |-> 0]]

\* dict.get("text", "") of a content entry; an entry that is no dict raises
EntryText(entry) ==
    IF entry.t # "dict" THEN Raise("AttributeError", <<>>)
    ELSE IF "text" \in DOMAIN entry.v THEN Ok(entry.v.text)
    ELSE Ok(PyStr(<<>>))

\* a result whose total_posts is left as initialised
ProcessedStaleTotal(posts, subreddit) == [EmptyProcessed(subreddit) EXCEPT !.posts = posts]

\* processed_data once posts and total_posts are assigned (lines 176-177)
Processed(posts, subreddit) ==
    [posts |-> posts,
     metadata |-> [subreddit |-> subreddit, pages_scraped |-> 1, total_posts |-> Len(posts)]]

process_firecrawl_response(raw_data, subreddit) ==
    IF raw_data.t # "dict" THEN EmptyProcessed(subreddit)
    ELSE IF ~("content" \in DOMAIN raw_data.v /\ Len(raw_data.v.content) > 0)
        THEN EmptyProcessed(subreddit)
    ELSE LET text == EntryText(raw_data.v.content[1])
         IN  IF ~text.ok THEN EmptyProcessed(subreddit)
             ELSE LET posts == extract_posts_from_markdown(text.val, subreddit)
                  IN  IF ~posts.ok THEN EmptyProcessed(subreddit)
                      ELSE Processed(posts.val, subreddit)

TestPayloadText ==
    <<"#","#"," ","T","e","s","t"," ","P","o","s","t",NL,"T","h","i","s"," ","i","s"," ","t",
      "e","s","t"," ","c","o","n","t","e","n","t",NL,"#","#","#"," ","C","o","m","m","e","n",
      "t",NL,"T","h","i","s"," ","i","s"," ","a"," ","c","o","m","m","e","n","t">>

SpecScenarioText ==
    <<"#","#"," ","F","i","r","s","t"," ","P","o","s","t",NL,"B","o","d","y"," ","A",NL,"#","#",
      "#"," ","C","1",NL,"H","e","l","l","o",NL,NL,"#","#"," ","S","e","c","o","n","d"," ","P",
      "o","s","t",NL,"B","o","d","y"," ","B">>

TestMarkdownText ==
    <<"#","#"," ","F","i","r","s","t"," ","P","o","s","t",NL,"C","o","n","t","e","n","t"," ",
      "f","o","r"," ","f","i","r","s","t"," ","p","o","s","t",NL,"#","#","#"," ","C","o","m",
      "m","e","n","t"," ","1",NL,"F","i","r","s","t"," ","c","o","m","m","e","n","t",NL,"#","#",
      "#"," ","C","o","m","m","e","n","t"," ","2",NL,"S","e","c","o","n","d"," ","c","o","m",
      "m","e","n","t",NL,NL,"#","#"," ","S","e","c","o","n","d"," ","P","o","s","t",NL,"C","o",
      "n","t","e","n","t"," ","f","o","r"," ","s","e","c","o","n","d"," ","p","o","s","t",NL,
      "#","#","#"," ","C","o","m","m","e","n","t"," ","3",NL,"T","h","i","r","d"," ","c","o",
      "m","m","e","n","t">>

\* ------------------------------------------------------------------------
\* Inputs of the normaliser: markdown blobs rendered from a section
\* structure, and raw payloads of every shape the code branches on
\* ------------------------------------------------------------------------

\* most sections of a rendered blob
MaxSections == 2

\* most comment blocks of a rendered section
MaxComments == 2

\* sequences over S of length 0..n
SeqUpTo(S, n) == UNION {[1..k -> S] : k \in 0..n}

Titles == {<<"A">>, <<"B", "c">>}
Bodies == {<<<<"b">>>>}
CommentBlocks == {[label |-> <<"C">>, lines |-> <<<<"y">>>>]}

Sections == [title : Titles, body : Bodies, comments : SeqUpTo(CommentBlocks, MaxComments)]

\* a filler body line of n characters
Fill(n) == [i \in 1..n |-> "x"]

\* lengths of the filler line added to the first section's body (0: none);
\* the smallest rendered blob has 6 characters, which the filler and its
\* line break bring to 99, 100 and above
FillLens == {0, 92, 93, 120}

RECURSIVE Flatten(_)
\* the concatenation of a sequence of sequences
Flatten(ss) == IF ss = <<>> THEN <<>> ELSE Head(ss) \o Flatten(Tail(ss))

\* the lines of one section: its '## ' heading, its body, its '### ' blocks
SectionLines(sec) ==
    <<H2 \o sec.title>> \o sec.body
      \o Flatten([j \in 1..Len(sec.comments) |->
                    <<<<"#", "#", "#", " ">> \o sec.comments[j].label>> \o sec.comments[j].lines])

\* the blob of a section structure
Render(shape) == Join(Flatten([k \in 1..Len(shape) |-> SectionLines(shape[k])]), <<NL>>)

\* shape with a filler line of n characters appended to its first body
WithFill(shape, n) ==
    IF n = 0 THEN shape
    ELSE [shape EXCEPT ![1].body = @ \o <<Fill(n)>>]

StructuredShapes ==
    {WithFill(s, n) : s \in (SeqUpTo(Sections, MaxSections) \ {<<>>}), n \in FillLens}

\* test_process_firecrawl_response's payload, as a section structure
TestPayloadShape ==
    <<[title |-> <<"T", "e", "s", "t", " ", "P", "o", "s", "t">>,
       body |-> <<<<"T", "h", "i", "s", " ", "i", "s", " ", "t", "e", "s", "t", " ",
                    "c", "o", "n", "t", "e", "n", "t">>>>,
       comments |-> <<[label |-> <<"C", "o", "m", "m", "e", "n", "t">>,
                       lines |-> <<<<"T", "h", "i", "s", " ", "i", "s", " ", "a", " ",
                                     "c", "o", "m", "m", "e", "n", "t">>>>]>>]>>

\* the markdown scenario "## First Post\nBody A\n### C1\nHello\n\n## Second Post\nBody B"
SpecScenarioShape ==
    <<[title |-> <<"F", "i", "r", "s", "t", " ", "P", "o", "s", "t">>,
       body |-> <<<<"B", "o", "d", "y", " ", "A">>>>,
       comments |-> <<[label |-> <<"C", "1">>,
                       lines |-> <<<<"H", "e", "l", "l", "o">>, <<>>>>]>>],
      [title |-> <<"S", "e", "c", "o", "n", "d", " ", "P", "o", "s", "t">>,
       body |-> <<<<"B", "o", "d", "y", " ", "B">>>>,
       comments |-> <<>>]>>

\* a section whose '### ' block follows the heading line directly (no body line)
EmptyBodyShape ==
    <<[title |-> <<"A">>, body |-> <<>>,
       comments |-> <<[label |-> <<"C">>, lines |-> <<Fill(100)>>]>>]>>

\* blobs that are not rendered from a structure
PlainBlobs ==
    {<<>>, Fill(99), Fill(100), [i \in 1..100 |-> " "],
     <<"i", "n", "t", "r", "o", NL>> \o Render(<<[title |-> <<"A">>, body |-> <<Fill(100)>>,
                                                   comments |-> <<>>]>>),
     TestMarkdownText}

\* every markdown input: [text, shape]; shape is <<>> for a plain blob
MarkdownInputs ==
    {[text |-> Render(s), shape |-> s] : s \in StructuredShapes \cup {TestPayloadShape, SpecScenarioShape, EmptyBodyShape}}
      \cup {[text |-> b, shape |-> <<>>] : b \in PlainBlobs}

\* raw payloads without a usable markdown text
MalformedPayloads ==
    {PyNone,
     PyDict([isError |-> FALSE]),
     PyDict([isError |-> FALSE, content |-> <<>>]),
     PyDict([content |-> <<PyStr(<<"s">>)>>]),
     PyDict([content |-> <<PyNone>>]),
     PyDict([content |-> <<PyDict([type |-> PyStr(<<"t">>)])>>]),
     PyDict([content |-> <<PyDict([text |-> PyNone])>>]),
     PyDict([content |-> <<PyDict([text |-> PyInt(0)])>>]),
     PyDict([content |-> <<PyDict([text |-> PyInt(5)])>>])}

\* the wrapper object {content: [{text: <markdown>}]}
MarkdownPayload(text) == PyDict([content |-> <<PyDict([text |-> PyStr(text)])>>])

CleanNames == {<<"t", "e", "s", "t">>, <<"x">>}

NoIn == [op |-> "none"]
NoOut == [done |-> FALSE]
Done(v) == [done |-> TRUE, res |-> v]

NormInputs ==
    {[op |-> "process", arg |-> MarkdownPayload(m.text), shape |-> m.shape, subreddit |-> n] :
        m \in MarkdownInputs, n \in CleanNames}
      \cup {[op |-> "process", arg |-> r, shape |-> <<>>, subreddit |-> n] :
              r \in MalformedPayloads, n \in CleanNames}
      \cup {[op |-> "extract", arg |-> PyStr(m.text), shape |-> m.shape, subreddit |-> n] :
              m \in MarkdownInputs, n \in CleanNames}
      \cup {[op |-> "extract", arg |-> a, shape |-> <<>>, subreddit |-> n] :
              a \in {PyNone, PyInt(5)}, n \in CleanNames}


\* ------------------------------------------------------------------------
\* FirecrawlScraper.scrape_subreddit and firecrawl_scrape
\* ------------------------------------------------------------------------

UnknownErrorText ==
    <<"U","n","k","n","o","w","n"," ","e","r","r","o","r">>

RateLimitNeedle ==
    <<"r","a","t","e"," ","l","i","m","i","t">>

RateLimitedText ==
    <<"R","a","t","e"," ","l","i","m","i","t"," ","e","x","c","e","e","d","e","d">>

ScrapeFailedText ==
    <<"S","c","r","a","p","e"," ","f","a","i","l","e","d">>

FailedAfterAttemptsText ==
    <<"F","a","i","l","e","d"," ","t","o"," ","s","c","r","a","p","e"," ","d","a","t","a"," ",
      "a","f","t","e","r"," ","m","u","l","t","i","p","l","e"," ","a","t","t","e","m","p","t",
      "s">>

CacheDirPrefix ==
    <<"b","a","c","k","e","n","d","/","d","a","t","a","_">>

JsonSuffix ==
    <<".","j","s","o","n">>


\* self.max_retries
max_retries == 3

\* self.retry_delay
retry_delay == 2

\* the identifiers passed to scrape_subreddit
Subreddits == {<<"x">>, <<"r", "/", "x">>}

\* cache_file = f"backend/data_{subreddit}.json"
cache_file(subreddit) == CacheDirPrefix \o subreddit \o JsonSuffix

\* clean_subreddit = subreddit.replace('r/', '').strip()
clean_subreddit(subreddit) == Strip(Replace(subreddit, RPrefix, <<>>))

\* url = f"https://www.reddit.com/r/{clean_subreddit}/hot/"
reddit_url(subreddit) == UrlPrefix \o clean_subreddit(subreddit) \o UrlHot

CacheFiles == {cache_file(s) : s \in Subreddits}

\* a cache file: absent, holding the JSON document `data`, holding text that
\* is not JSON (corrupt or partially written), or present but not openable.
\* json.dump followed by json.load gives back a value of dicts, lists,
\* strings and integers unchanged, so a valid file is modelled by the value
\* it holds.
Absent == [kind |-> "absent"]
Corrupt == [kind |-> "corrupt"]
Unreadable == [kind |-> "unreadable"]
Valid(data) == [kind |-> "valid", data |-> data]

\* what one upstream request can end in: requests.post raising, or a
\* response with a status and a body
PostRaises(type) == [kind |-> "exception", type |-> type, status |-> 0, body |-> PyNone]
Http(status) == [kind |-> "response", type |-> "", status |-> status, body |-> PyNone]
NotJson == [t |-> "notjson"]
Http200(body) == [kind |-> "response", type |-> "", status |-> 200, body |-> body]

\* bodies with isError set
ErrorBody(text) == PyDict([isError |-> TRUE, content |-> <<PyDict([text |-> PyStr(text)])>>])

\* payloads of a response that is no error
OkPayloads ==
    {PyDict([isError |-> FALSE]),
     PyDict([isError |-> FALSE, content |-> <<>>]),
     PyDict([content |-> <<PyStr(<<"s">>)>>]),
     PyDict([content |-> <<PyDict([type |-> PyStr(<<"t">>)])>>]),
     MarkdownPayload(TestPayloadText),
     MarkdownPayload(TestMarkdownText)}

Responses ==
    {PostRaises("ConnectionError"), PostRaises("Timeout"),
     Http(403), Http(404), Http(500),
     Http200(NotJson), Http200(PyNone),
     Http200(ErrorBody(RateLimitedText)), Http200(ErrorBody(ScrapeFailedText)),
     Http200(PyDict([isError |-> TRUE])),
     Http200(PyDict([isError |-> TRUE, content |-> <<PyStr(<<"s">>)>>]))}
      \cup {Http200(b) : b \in OkPayloads}

\* whether response.json() failing raises a requests.exceptions.RequestException
\* (requests >= 2.27) or a plain ValueError (older requests): the repository
\* pins no version
JsonErrorKinds == {"RequestException", "ValueError"}

\* the exceptions `except requests.exceptions.RequestException` catches
IsRequestException(exc, jsonErr) ==
    \/ exc.type \in {"ConnectionError", "Timeout", "HTTPError"}
    \/ exc.type = "JSONDecodeError" /\ jsonErr = "RequestException"

\* str(e) of a library exception is named by its type and status
Exc(type, msg) == [type |-> type, msg |-> msg]

\* 2 ** n
RECURSIVE Pow2(_)
Pow2(n) == IF n = 0 THEN 1 ELSE 2 * Pow2(n - 1)

\* a backoff that grows by retry_delay per attempt
wait_time_linear(attempt) == retry_delay * (attempt + 1)

\* wait_time = self.retry_delay * (2 ** attempt)
wait_time(attempt) == retry_delay * Pow2(attempt)

\* the try block of one loop iteration, up to the first raise, return or
\* continue: [do |-> "return", data], [do |-> "raise", exc] or
\* [do |-> "continue", wait] (the rate-limit branch, which sleeps first)
TryBody(resp, attempt) ==
    IF resp.kind = "exception"
        THEN [do |-> "raise", exc |-> Exc(resp.type, <<resp.type>>)]
    ELSE IF resp.status >= 400 /\ resp.status < 600
        \* response.raise_for_status()
        THEN [do |-> "raise", exc |-> Exc("HTTPError", Str(resp.status))]
    ELSE IF resp.body = NotJson
        \* response.json()
        THEN [do |-> "raise", exc |-> Exc("JSONDecodeError", <<"JSONDecodeError">>)]
    ELSE IF resp.body.t # "dict"
        \* data.get on a value that is no dict
        THEN [do |-> "raise", exc |-> Exc("AttributeError", <<"AttributeError">>)]
    ELSE LET data == resp.body.v
             isError == "isError" \in DOMAIN data /\ data.isError
             hasContent == "content" \in DOMAIN data /\ Len(data.content) > 0
             first == data.content[1]
         IN  IF ~isError THEN [do |-> "return", data |-> resp.body]
             ELSE IF hasContent /\ first.t # "dict"
                 THEN [do |-> "raise", exc |-> Exc("AttributeError", <<"AttributeError">>)]
             ELSE LET error_message ==
                          IF hasContent /\ "text" \in DOMAIN first.v
                              THEN first.v.text.v
                              ELSE UnknownErrorText
                  IN  IF Contains(Lower(error_message), RateLimitNeedle)
                          THEN [do |-> "continue", wait |-> wait_time(attempt)]
                          ELSE [do |-> "raise", exc |-> Exc("Exception", error_message)]

\* one iteration of `for attempt in range(self.max_retries)` with its except
\* clause, and the raise after the loop when this was the last iteration:
\* [do |-> "return", data], [do |-> "raise", exc, slept] or
\* [do |-> "next", slept]; slept is the sequence of sleeps made (0 or 1)
LoopIteration(resp, attempt, jsonErr) ==
    LET t == TryBody(resp, attempt)
        last == attempt + 1 >= max_retries
    IN  CASE t.do = "return" -> [do |-> "return", data |-> t.data, slept |-> <<>>]
          [] t.do = "continue" ->
                IF last
                    THEN [do |-> "raise", exc |-> Exc("Exception", FailedAfterAttemptsText),
                          slept |-> <<t.wait>>]
                    ELSE [do |-> "next", slept |-> <<t.wait>>]
          [] t.do = "raise" ->
                IF ~IsRequestException(t.exc, jsonErr)
                    THEN [do |-> "raise", exc |-> t.exc, slept |-> <<>>]
                ELSE IF attempt < max_retries - 1
                    THEN [do |-> "next", slept |-> <<wait_time(attempt)>>]
                ELSE [do |-> "raise", exc |-> t.exc, slept |-> <<>>]

\* the outcomes of the cache write of lines 68-70: done, or os.makedirs /
\* open raising (the file is untouched), or json.dump raising after open
\* truncated the file
SaveOutcomes == {"saved", "makedirs_raises", "open_raises", "dump_raises"}

\* the file after the write
FileAfterSave(file, processed_data, outcome) ==
    CASE outcome = "saved" -> Valid(processed_data)
      [] outcome = "dump_raises" -> Corrupt
      [] OTHER -> file

\* an except clause that hands back placeholder posts beside the error
ErrorResultWithPosts(exc) == [posts |-> DummyPosts(<<>>), error |-> exc.msg]

\* the return of the except clause of scrape_subreddit
ErrorResult(exc) == [posts |-> <<>>, error |-> exc.msg]

\* an except clause that caches the error result it returns
FileAfterRaiseCached(file, exc) == Valid(ErrorResult(exc))

\* the cache file after the except clause of scrape_subreddit, which logs and
\* returns and writes nothing
FileAfterRaise(file, exc) == file

\* lines 63-78 once firecrawl_scrape returned reddit_data: [ret, file]
AfterFetch(reddit_data, subreddit, cache, file, outcome) ==
    LET processed_data == process_firecrawl_response(reddit_data, clean_subreddit(subreddit))
    IN  IF ~cache THEN [ret |-> processed_data, file |-> file]
        ELSE IF outcome = "saved"
            THEN [ret |-> processed_data, file |-> FileAfterSave(file, processed_data, outcome)]
        ELSE [ret |-> ErrorResult(Exc("OSError", <<outcome>>)),
              file |-> FileAfterSave(file, processed_data, outcome)]

\* the class of an upstream answer, as the error taxonomy names it
Classify(resp) ==
    CASE resp.kind = "exception" -> "network"
      [] resp.kind = "response" /\ resp.status \in {403, 404} -> "access"
      [] resp.kind = "response" /\ resp.status >= 400 /\ resp.status \notin {403, 404} -> "server"
      [] OTHER ->
            LET t == TryBody(resp, 0)
            IN  CASE resp.body = NotJson -> "notjson"
                  [] t.do = "return" -> "ok"
                  [] t.do = "continue" -> "rate_limit"
                  [] t.exc.type = "Exception" -> "upstream_error"
                  [] OTHER -> "malformed"

\* a cache lookup that never finds an entry
CacheHitNever(cache, file) == FALSE

\* `cache and os.path.exists(cache_file)` with json.load succeeding
CacheHit(cache, file) == cache /\ file.kind = "valid"

NoRet == [none |-> TRUE]
NoExc == Exc("", <<>>)
NoArg == [subreddit |-> <<>>, cache |-> FALSE]

\* ------------------------------------------------------------------------
\* analyzer.py (RedditAnalyzer): pain-point extraction
\* ------------------------------------------------------------------------

\* self.pain_point_keywords
pain_point_keywords ==
    <<
      <<"c","h","a","l","l","e","n","g","e">>,
      <<"p","r","o","b","l","e","m">>,
      <<"s","t","r","u","g","g","l","e">>,
      <<"d","i","f","f","i","c","u","l","t">>,
      <<"h","a","r","d">>,
      <<"i","s","s","u","e">>,
      <<"t","r","o","u","b","l","e">>,
      <<"w","o","r","r","y">>,
      <<"c","o","n","c","e","r","n","e","d">>,
      <<"f","r","u","s","t","r","a","t","i","n","g">>,
      <<"o","v","e","r","w","h","e","l","m","e","d">>,
      <<"a","n","x","i","o","u","s">>,
      <<"t","i","r","e","d">>,
      <<"e","x","h","a","u","s","t","e","d">>,
      <<"h","e","l","p">>,
      <<"a","d","v","i","c","e">>,
      <<"s","u","g","g","e","s","t","i","o","n">>,
      <<"t","i","p","s">>
    >>

\* self.pain_point_patterns: every pattern is (?i) ALTERNATIVES \s+ ([^.!?]+) [.!?];
\* a pattern is held as its literal heads, the alternatives multiplied out in
\* the order the regex engine tries them, in lower case
pain_point_patterns ==
    <<
      <<
        <<"s","t","r","u","g","g","l","e"," ","w","i","t","h">>,
        <<"s","t","r","u","g","g","l","i","n","g"," ","w","i","t","h">>
      >>,
      <<
        <<"d","i","f","f","i","c","u","l","t"," ","t","o">>,
        <<"h","a","r","d"," ","t","o">>
      >>,
      <<
        <<"p","r","o","b","l","e","m"," ","w","i","t","h">>,
        <<"p","r","o","b","l","e","m"," ","i","s">>,
        <<"p","r","o","b","l","e","m"," ","i","n">>,
        <<"i","s","s","u","e"," ","w","i","t","h">>,
        <<"i","s","s","u","e"," ","i","s">>,
        <<"i","s","s","u","e"," ","i","n">>,
        <<"c","h","a","l","l","e","n","g","e"," ","w","i","t","h">>,
        <<"c","h","a","l","l","e","n","g","e"," ","i","s">>,
        <<"c","h","a","l","l","e","n","g","e"," ","i","n">>
      >>,
      <<
        <<"n","e","e","d"," ","h","e","l","p">>,
        <<"n","e","e","d"," ","a","d","v","i","c","e">>,
        <<"n","e","e","d"," ","g","u","i","d","a","n","c","e">>,
        <<"l","o","o","k","i","n","g"," ","f","o","r"," ","h","e","l","p">>,
        <<"l","o","o","k","i","n","g"," ","f","o","r"," ","a","d","v","i","c","e">>,
        <<"l","o","o","k","i","n","g"," ","f","o","r"," ","g","u","i","d","a","n","c","e">>
      >>,
      <<
        <<"h","o","w"," ","d","o"," ","i">>,
        <<"h","o","w"," ","d","o"," ","y","o","u">>,
        <<"h","o","w"," ","d","o"," ","w","e">>,
        <<"h","o","w"," ","c","a","n"," ","i">>,
        <<"h","o","w"," ","c","a","n"," ","y","o","u">>,
        <<"h","o","w"," ","c","a","n"," ","w","e">>
      >>,
      <<
        <<"a","n","y"," ","t","i","p","s"," ","f","o","r">>
      >>
    >>

\* the characters of the class [.!?]
SentenceEnd == {".", "!", "?"}

\* the last index of the run of whitespace that starts at i
RunEnd(text, i) ==
    LET solid == {j \in i..Len(text) : text[j] \notin Whitespace}
    IN  IF solid = {} THEN Len(text)
        ELSE (CHOOSE j \in solid : \A k \in solid : j <= k) - 1

RECURSIVE SentencesFrom(_, _)
\* the rest of re.split(r'(?<=[.!?])\s+', text) from position pos: the
\* separator is a whole run of whitespace that follows one of . ! ?
SentencesFrom(text, pos) ==
    LET seps == {i \in pos..Len(text) :
                    i > 1 /\ text[i] \in Whitespace /\ text[i - 1] \in SentenceEnd}
    IN  IF seps = {} THEN <<SubSeq(text, pos, Len(text))>>
        ELSE LET i == CHOOSE x \in seps : \A y \in seps : x <= y
             IN  <<SubSeq(text, pos, i - 1)>> \o SentencesFrom(text, RunEnd(text, i) + 1)

\* sentences = re.split(r'(?<=[.!?])\s+', text)
SplitSentences(text) == SentencesFrom(text, 1)

\* any(keyword in sentence.lower() for keyword in self.pain_point_keywords)
HasKeyword(sentence) ==
    LET low == Lower(sentence) \o <<>>
    IN  \E k \in 1..Len(pain_point_keywords) :
            LET keyword == pain_point_keywords[k]
            IN  \E i \in 1..(Len(low) - Len(keyword) + 1) :
                    /\ low[i] = keyword[1]
                    /\ SubSeq(low, i, i + Len(keyword) - 1) = keyword

RECURSIVE KeywordPass(_)
\* Method 1: the sentences that hold a keyword, stripped, in text order
KeywordPass(sentences) ==
    IF sentences = <<>> THEN <<>>
    ELSE (IF HasKeyword(Head(sentences)) THEN <<Strip(Head(sentences))>> ELSE <<>>)
             \o KeywordPass(Tail(sentences))

NoMatch == [found |-> FALSE]

\* the tail \s+([^.!?]+)[.!?] of a pattern matched at position j: \s+ takes
\* the whole run of whitespace, or all but its last character when one of
\* . ! ? follows the run at once; the group runs up to the next . ! ?
MatchTail(text, j) ==
    LET ends == {p \in j..Len(text) : text[p] \in SentenceEnd}
        p == CHOOSE x \in ends : \A y \in ends : x <= y
        w == RunEnd(text, j)
    IN  IF j > Len(text) \/ text[j] \notin Whitespace \/ ends = {} THEN NoMatch
        ELSE IF p - j < 2 THEN NoMatch
        ELSE [found |-> TRUE,
              group |-> SubSeq(text, IF w + 1 = p THEN w ELSE w + 1, p - 1),
              end |-> p]

\* the match of a pattern that starts at position i of text, whose lower-case
\* form is low, taking the first head in order whose continuation matches
MatchAt(text, low, heads, i) ==
    LET ok == {k \in 1..Len(heads) :
                  /\ low[i] = heads[k][1]
                  /\ i + Len(heads[k]) - 1 <= Len(low)
                  /\ SubSeq(low, i, i + Len(heads[k]) - 1) = heads[k]
                  /\ MatchTail(text, i + Len(heads[k])).found}
    IN  IF ok = {} THEN NoMatch
        ELSE MatchTail(text, i + Len(heads[CHOOSE k \in ok : \A l \in ok : k <= l]))

RECURSIVE FindAllFrom(_, _, _, _)
\* the groups of the leftmost matches from position pos on, each search
\* starting where the previous match ended
FindAllFrom(text, low, heads, pos) ==
    LET starts == {i \in pos..Len(text) : MatchAt(text, low, heads, i).found}
    IN  IF starts = {} THEN <<>>
        ELSE LET m == MatchAt(text, low, heads, CHOOSE i \in starts : \A j \in starts : i <= j)
             IN  <<m.group>> \o FindAllFrom(text, low, heads, m.end + 1)

\* re.findall(pattern, text); the lower-case text is held as a tuple
FindAll(text, heads) == FindAllFrom(text, Lower(text) \o <<>>, heads, 1)

RECURSIVE PatternPass(_, _)
\* Method 2: for each pattern from the k-th on, in order, its groups stripped
PatternPass(text, k) ==
    IF k > Len(pain_point_patterns) THEN <<>>
    ELSE LET matches == FindAll(text, pain_point_patterns[k])
         IN  [i \in 1..Len(matches) |-> Strip(matches[i])] \o PatternPass(text, k + 1)

\* a membership test that never finds the point
InListNever(point, list) == FALSE

\* point in unique_pain_points
InList(point, list) == \E i \in 1..Len(list) : list[i] = point

\* the minimum length filter: len(point) > 10
MinPointLen == 10

\* a filter that lets a point of exactly the minimum length through
LongEnoughInclusive(point) == Len(point) >= MinPointLen

\* len(point) > 10
LongEnough(point) == Len(point) > MinPointLen

RECURSIVE UniqueLong(_, _)
\* lines 73-77: the points the loop over pain_points appends to
\* unique_pain_points, given what the list holds so far
UniqueLong(pain_points, unique_pain_points) ==
    IF pain_points = <<>> THEN <<>>
    ELSE LET point == Head(pain_points)
         IN  IF ~InList(point, unique_pain_points) /\ LongEnough(point)
                 THEN <<point>> \o UniqueLong(Tail(pain_points), Append(unique_pain_points, point))
                 ELSE UniqueLong(Tail(pain_points), unique_pain_points)

\* a test for the empty string only
NoTextEmptyOnly(text) == text.t = "str" /\ text.v = <<>>

\* `not text`
NoText(text) == Falsy(text)

\* extract_pain_points(text) for a Python value text
extract_pain_points(text) ==
    IF NoText(text) THEN Ok(<<>>)
    ELSE IF text.t # "str"
        \* re.split on a value that is no string
        THEN Raise("TypeError", <<"TypeError">>)
    ELSE Ok(UniqueLong(KeywordPass(SplitSentences(text.v)) \o PatternPass(text.v, 1), <<>>))

RECURSIVE CommentPoints(_)
\* lines 108-112: the points of the comments that have a 'content', in order
CommentPoints(comments) ==
    IF comments = <<>> THEN <<>>
    ELSE LET comment == Head(comments)
         IN  (IF "content" \in DOMAIN comment
                  THEN extract_pain_points(PyStr(comment.content)).val
                  ELSE <<>>)
                 \o CommentPoints(Tail(comments))

\* a loop body that reads the content of a post before its title
PostPointsContentFirst(post) ==
    (IF "content" \in DOMAIN post THEN extract_pain_points(PyStr(post.content)).val ELSE <<>>)
        \o (IF "title" \in DOMAIN post THEN extract_pain_points(PyStr(post.title)).val ELSE <<>>)
        \o (IF "comments" \in DOMAIN post THEN CommentPoints(post.comments) ELSE <<>>)

\* lines 97-112, one turn of `for post in data['posts']`: what it adds to
\* all_pain_points
PostPoints(post) ==
    (IF "title" \in DOMAIN post THEN extract_pain_points(PyStr(post.title)).val ELSE <<>>)
        \o (IF "content" \in DOMAIN post THEN extract_pain_points(PyStr(post.content)).val ELSE <<>>)
        \o (IF "comments" \in DOMAIN post THEN CommentPoints(post.comments) ELSE <<>>)

RECURSIVE AllPoints(_)
\* all_pain_points after the loop over the posts
AllPoints(posts) ==
    IF posts = <<>> THEN <<>> ELSE PostPoints(Head(posts)) \o AllPoints(Tail(posts))

RECURSIVE Unique(_, _)
\* lines 116-120: the points the loop over all_pain_points appends to
\* unique_pain_points, given what the list holds so far
Unique(all_pain_points, unique_pain_points) ==
    IF all_pain_points = <<>> THEN <<>>
    ELSE LET point == Head(all_pain_points)
         IN  IF ~InList(point, unique_pain_points)
                 THEN <<point>> \o Unique(Tail(all_pain_points), Append(unique_pain_points, point))
                 ELSE Unique(Tail(all_pain_points), unique_pain_points)

\* `not data or 'posts' not in data` for None or a mapping
InvalidData(data) ==
    \/ data.t = "none"
    \/ data.t = "dict" /\ DOMAIN data.v = {}
    \/ data.t = "dict" /\ "posts" \notin DOMAIN data.v

\* process_subreddit_data(data) for None or a mapping whose text fields are
\* strings
process_subreddit_data(data) ==
    IF InvalidData(data) THEN Ok(<<>>)
    ELSE Ok(Unique(AllPoints(data.v.posts), <<>>))

\* a keyword, and pattern 1 with a group of 14 characters
SentStruggle ==
    <<"I"," ","s","t","r","u","g","g","l","e"," ","w","i","t","h"," ","s","l","e","e","p"," ",
      "s","c","h","e","d","u","l","e",".">>

\* a keyword, and pattern 2 with a group of 3 characters
SentHardTo ==
    <<"I","t"," ","i","s"," ","h","a","r","d"," ","t","o"," ","n","a","p",".">>

\* a keyword in a sentence of 8 characters
SentHelp ==
    <<"H","e","l","p"," ","m","e",".">>

\* a keyword in a sentence of exactly 10 characters
SentTiredTen ==
    <<"T","i","r","e","d"," ","n","o","w",".">>

\* a keyword in a sentence of 11 characters
SentTiredEleven ==
    <<"T","i","r","e","d"," ","n","o","w","!","!">>

\* the same in lower case
SentTiredLower ==
    <<"t","i","r","e","d"," ","n","o","w","!","!">>

\* no keyword, pattern 5 with a group of 19 characters
SentHowDoI ==
    <<"H","o","w"," ","d","o"," ","I"," ","s","l","e","e","p"," ","m","o","r","e"," ","a","t",
      " ","n","i","g","h","t","?">>

\* no keyword and no pattern
SentNice ==
    <<"N","i","c","e"," ","d","a","y",".">>

SentStruggleGroup ==
    <<"s","l","e","e","p"," ","s","c","h","e","d","u","l","e">>

SentHardToGroup ==
    <<"n","a","p">>

SentHowDoIGroup ==
    <<"s","l","e","e","p"," ","m","o","r","e"," ","a","t"," ","n","i","g","h","t">>

NoGroup == <<>>

\* the sentences the examined texts are made of: the text, whether it holds a
\* keyword, and the pattern (0: none) that matches in it with the group it takes
SentencePool ==
    {[text |-> SentStruggle, keyword |-> TRUE, pattern |-> 1, group |-> SentStruggleGroup],
     [text |-> SentHardTo, keyword |-> TRUE, pattern |-> 2, group |-> SentHardToGroup],
     [text |-> SentHelp, keyword |-> TRUE, pattern |-> 0, group |-> NoGroup],
     [text |-> SentTiredTen, keyword |-> TRUE, pattern |-> 0, group |-> NoGroup],
     [text |-> SentTiredEleven, keyword |-> TRUE, pattern |-> 0, group |-> NoGroup],
     [text |-> SentTiredLower, keyword |-> TRUE, pattern |-> 0, group |-> NoGroup],
     [text |-> SentHowDoI, keyword |-> FALSE, pattern |-> 5, group |-> SentHowDoIGroup],
     [text |-> SentNice, keyword |-> FALSE, pattern |-> 0, group |-> NoGroup]}

\* ------------------------------------------------------------------------
\* analyzer.py (RedditAnalyzer): content ideas
\* ------------------------------------------------------------------------

\* the TikTok prompt up to the subreddit, from there to the list of points, and after it
TikTokPromptHead ==
    <<NL," "," "," "," "," "," "," "," ","Y","o","u"," ","a","r","e"," ","a"," ","c","r","e",
      "a","t","i","v","e"," ","s","o","c","i","a","l"," ","m","e","d","i","a"," ","c","o","n",
      "t","e","n","t"," ","s","t","r","a","t","e","g","i","s","t"," ","f","o","r"," ","T","i",
      "k","T","o","k",".",NL," "," "," "," "," "," "," "," ",NL," "," "," "," "," "," "," "," ",
      "B","a","s","e","d"," ","o","n"," ","t","h","e"," ","f","o","l","l","o","w","i","n","g",
      " ","p","a","i","n"," ","p","o","i","n","t","s"," ","i","d","e","n","t","i","f","i","e",
      "d"," ","i","n"," ","t","h","e"," ","r","/">>

TikTokPromptMiddle ==
    <<" ","s","u","b","r","e","d","d","i","t",":",NL," "," "," "," "," "," "," "," ">>

TikTokPromptTail ==
    <<NL," "," "," "," "," "," "," "," ",NL," "," "," "," "," "," "," "," ","C","r","e","a","t",
      "e"," ","3"," ","e","n","g","a","g","i","n","g"," ","T","i","k","T","o","k"," ","v","i",
      "d","e","o"," ","i","d","e","a","s"," ","t","h","a","t"," ","w","o","u","l","d"," ","r",
      "e","s","o","n","a","t","e"," ","w","i","t","h"," ","t","h","i","s"," ","a","u","d","i",
      "e","n","c","e",".",NL," "," "," "," "," "," "," "," ","E","a","c","h"," ","i","d","e",
      "a"," ","s","h","o","u","l","d"," ","b","e"," ","s","p","e","c","i","f","i","c",","," ",
      "a","c","t","i","o","n","a","b","l","e",","," ","a","n","d"," ","s","t","r","u","c","t",
      "u","r","e","d"," ","i","n"," ","a"," ","w","a","y"," ","t","h","a","t"," ","w","o","r",
      "k","s"," ","f","o","r"," ","T","i","k","T","o","k","'","s"," ","s","h","o","r","t"," ",
      "f","o","r","m","a","t",".",NL," "," "," "," "," "," "," "," ",NL," "," "," "," "," "," ",
      " "," ","F","o","r","m","a","t"," ","e","a","c","h"," ","i","d","e","a"," ","a","s"," ",
      "a"," ","o","n","e","-","s","e","n","t","e","n","c","e"," ","h","o","o","k"," ","f","o",
      "l","l","o","w","e","d"," ","b","y"," ","a"," ","b","r","i","e","f"," ","d","e","s","c",
      "r","i","p","t","i","o","n"," ","o","f"," ","t","h","e"," ","v","i","d","e","o"," ","c",
      "o","n","c","e","p","t",".",NL," "," "," "," "," "," "," "," ","D","o"," ","n","o","t",
      " ","i","n","c","l","u","d","e"," ","h","a","s","h","t","a","g","s"," ","o","r"," ","e",
      "m","o","j","i","s",".",NL," "," "," "," "," "," "," "," ">>

\* the Instagram prompt up to the subreddit, from there to the list of points, and after it
InstagramPromptHead ==
    <<NL," "," "," "," "," "," "," "," ","Y","o","u"," ","a","r","e"," ","a"," ","c","r","e",
      "a","t","i","v","e"," ","s","o","c","i","a","l"," ","m","e","d","i","a"," ","c","o","n",
      "t","e","n","t"," ","s","t","r","a","t","e","g","i","s","t"," ","f","o","r"," ","I","n",
      "s","t","a","g","r","a","m",".",NL," "," "," "," "," "," "," "," ",NL," "," "," "," "," ",
      " "," "," ","B","a","s","e","d"," ","o","n"," ","t","h","e"," ","f","o","l","l","o","w",
      "i","n","g"," ","p","a","i","n"," ","p","o","i","n","t","s"," ","i","d","e","n","t","i",
      "f","i","e","d"," ","i","n"," ","t","h","e"," ","r","/">>

InstagramPromptMiddle ==
    <<" ","s","u","b","r","e","d","d","i","t",":",NL," "," "," "," "," "," "," "," ">>

InstagramPromptTail ==
    <<NL," "," "," "," "," "," "," "," ",NL," "," "," "," "," "," "," "," ","C","r","e","a","t",
      "e"," ","3"," ","e","n","g","a","g","i","n","g"," ","I","n","s","t","a","g","r","a","m",
      " ","c","o","n","t","e","n","t"," ","i","d","e","a","s"," ","t","h","a","t"," ","w","o",
      "u","l","d"," ","r","e","s","o","n","a","t","e"," ","w","i","t","h"," ","t","h","i","s",
      " ","a","u","d","i","e","n","c","e",".",NL," "," "," "," "," "," "," "," ","C","o","n",
      "s","i","d","e","r"," ","b","o","t","h"," ","f","e","e","d"," ","p","o","s","t","s"," ",
      "a","n","d"," ","r","e","e","l","s","."," ","I","d","e","a","s"," ","s","h","o","u","l",
      "d"," ","b","e"," ","s","p","e","c","i","f","i","c",","," ","a","c","t","i","o","n","a",
      "b","l","e",","," ","a","n","d"," ","v","i","s","u","a","l","l","y"," ","c","o","m","p",
      "e","l","l","i","n","g",".",NL," "," "," "," "," "," "," "," ",NL," "," "," "," "," "," ",
      " "," ","F","o","r","m","a","t"," ","e","a","c","h"," ","i","d","e","a"," ","a","s"," ",
      "a"," ","o","n","e","-","s","e","n","t","e","n","c","e"," ","h","o","o","k"," ","f","o",
      "l","l","o","w","e","d"," ","b","y"," ","a"," ","b","r","i","e","f"," ","d","e","s","c",
      "r","i","p","t","i","o","n"," ","o","f"," ","t","h","e"," ","c","o","n","t","e","n","t",
      " ","c","o","n","c","e","p","t",".",NL," "," "," "," "," "," "," "," ","D","o"," ","n",
      "o","t"," ","i","n","c","l","u","d","e"," ","h","a","s","h","t","a","g","s"," ","o","r",
      " ","e","m","o","j","i","s",".",NL," "," "," "," "," "," "," "," ">>

\* the mapping returned when there is no pain point
CannedIdeas ==
    [tiktok |-> <<
        <<"D","a","y"," ","i","n"," ","t","h","e"," ","l","i","f","e",":"," ","C","r","e","a",
          "t","e"," ","a"," ","'","d","a","y"," ","i","n"," ","t","h","e"," ","l","i","f","e",
          "'"," ","v","i","d","e","o"," ","s","h","o","w","i","n","g"," ","c","o","p","i","n",
          "g"," ","s","t","r","a","t","e","g","i","e","s"," ","f","o","r"," ","p","a","r","e",
          "n","t","s"," ","o","f"," ","n","e","u","r","o","d","i","v","e","r","g","e","n","t",
          " ","c","h","i","l","d","r","e","n",".">>,
        <<"Q","u","i","c","k"," ","t","i","p"," ","v","i","d","e","o",":"," ","S","h","a","r",
          "e"," ","a"," ","p","r","a","c","t","i","c","a","l"," ","t","i","p"," ","t","h","a",
          "t"," ","h","e","l","p","e","d"," ","p","a","r","e","n","t","s"," ","o","v","e","r",
          "c","o","m","e"," ","a"," ","c","o","m","m","o","n"," ","c","h","a","l","l","e","n",
          "g","e"," ","i","n"," ","t","h","e"," ","s","p","e","c","i","a","l"," ","n","e","e",
          "d","s"," ","c","o","m","m","u","n","i","t","y",".">>,
        <<"E","x","p","e","r","t"," ","i","n","t","e","r","v","i","e","w",":"," ","F","i","l",
          "m"," ","a"," ","q","u","i","c","k"," ","Q","&","A"," ","w","i","t","h"," ","a"," ",
          "s","p","e","c","i","a","l","i","s","t"," ","a","b","o","u","t"," ","t","h","e"," ",
          "m","o","s","t"," ","c","o","m","m","o","n"," ","q","u","e","s","t","i","o","n","s",
          " ","i","n"," ","t","h","e"," ","c","o","m","m","u","n","i","t","y",".">>
     >>,
     instagram |-> <<
        <<"R","e","s","o","u","r","c","e"," ","r","o","u","n","d","u","p",":"," ","C","r","e",
          "a","t","e"," ","a"," ","c","a","r","o","u","s","e","l"," ","p","o","s","t"," ","w",
          "i","t","h"," ","5"," ","h","e","l","p","f","u","l"," ","r","e","s","o","u","r","c",
          "e","s"," ","f","o","r"," ","t","h","e"," ","s","p","e","c","i","a","l"," ","n","e",
          "e","d","s"," ","c","o","m","m","u","n","i","t","y",".">>,
        <<"B","e","f","o","r","e","/","a","f","t","e","r"," ","j","o","u","r","n","e","y",":",
          " ","S","h","a","r","e"," ","a"," ","t","r","a","n","s","f","o","r","m","a","t","i",
          "o","n"," ","s","t","o","r","y"," ","s","h","o","w","i","n","g"," ","p","r","o","g",
          "r","e","s","s"," ","i","n"," ","a"," ","p","a","r","t","i","c","u","l","a","r"," ",
          "c","h","a","l","l","e","n","g","e"," ","a","r","e","a",".">>,
        <<"C","o","m","m","u","n","i","t","y"," ","s","p","o","t","l","i","g","h","t",":"," ",
          "F","e","a","t","u","r","e"," ","s","t","o","r","i","e","s"," ","f","r","o","m"," ",
          "y","o","u","r"," ","c","o","m","m","u","n","i","t","y"," ","w","i","t","h"," ","p",
          "e","r","m","i","s","s","i","o","n",","," ","h","i","g","h","l","i","g","h","t","i",
          "n","g"," ","c","r","e","a","t","i","v","e"," ","s","o","l","u","t","i","o","n","s",
          ".">>
     >>]

\* tiktok_templates, each split at its '{point}' field
tiktok_templates ==
    <<
      [before |->
          <<"S","h","o","r","t"," ","v","i","d","e","o"," ","i","d","e","a",":"," ","C","r","e",
            "a","t","e"," ","a"," ","v","i","d","e","o"," ","a","d","d","r","e","s","s","i","n",
            "g"," ","'">>,
       after |->
          <<"'"," ","w","i","t","h"," ","a"," ","s","u","r","p","r","i","s","i","n","g"," ","s",
            "o","l","u","t","i","o","n"," ","a","t"," ","t","h","e"," ","e","n","d",".">>],
      [before |->
          <<"H","o","o","k"," ","c","o","n","c","e","p","t",":"," ","S","t","a","r","t"," ","w",
            "i","t","h"," ","'","D","i","d"," ","y","o","u"," ","k","n","o","w","?","'"," ","a",
            "n","d"," ","t","h","e","n"," ","a","d","d","r","e","s","s"," ","'">>,
       after |->
          <<"'"," ","w","i","t","h"," ","a"," ","q","u","i","c","k"," ","p","r","a","c","t","i",
            "c","a","l"," ","h","a","c","k",".">>],
      [before |->
          <<"P","e","r","s","o","n","a","l"," ","s","t","o","r","y",":"," ","S","h","a","r","e",
            " ","y","o","u","r"," ","3","0","-","s","e","c","o","n","d"," ","s","t","o","r","y",
            " ","o","f"," ","o","v","e","r","c","o","m","i","n","g"," ","'">>,
       after |->
          <<"'"," ","w","i","t","h"," ","a","c","t","i","o","n","a","b","l","e"," ","t","a","k",
            "e","a","w","a","y","s",".">>],
      [before |->
          <<"C","o","m","p","a","r","i","s","o","n"," ","v","i","d","e","o",":"," ","D","o"," ",
            "a"," ","s","i","d","e","-","b","y","-","s","i","d","e"," ","s","h","o","w","i","n",
            "g"," ","t","h","e"," ","w","r","o","n","g"," ","v","s","."," ","r","i","g","h","t",
            " ","w","a","y"," ","t","o"," ","h","a","n","d","l","e"," ","'">>,
       after |->
          <<"'",".">>],
      [before |->
          <<"P","O","V"," ","c","o","n","c","e","p","t",":"," ","C","r","e","a","t","e"," ","a",
            " ","P","O","V"," ","v","i","d","e","o"," ","s","h","o","w","i","n","g"," ","t","h",
            "e"," ","d","a","i","l","y"," ","s","t","r","u","g","g","l","e"," ","w","i","t","h",
            " ","'">>,
       after |->
          <<"'"," ","a","n","d"," ","a"," ","m","o","m","e","n","t"," ","o","f"," ","v","i","c",
            "t","o","r","y",".">>]
    >>

\* instagram_templates, each split at its '{point}' field
instagram_templates ==
    <<
      [before |->
          <<"C","a","r","o","u","s","e","l"," ","i","d","e","a",":"," ","C","r","e","a","t","e",
            " ","a"," ","s","l","i","d","e","s","h","o","w"," ","w","i","t","h"," ","5"," ","e",
            "v","i","d","e","n","c","e","-","b","a","s","e","d"," ","s","t","r","a","t","e","g",
            "i","e","s"," ","t","o"," ","a","d","d","r","e","s","s"," ","'">>,
       after |->
          <<"'",".">>],
      [before |->
          <<"I","n","f","o","g","r","a","p","h","i","c"," ","c","o","n","c","e","p","t",":"," ",
            "S","h","a","r","e"," ","a"," ","v","i","s","u","a","l","l","y"," ","a","p","p","e",
            "a","l","i","n","g"," ","b","r","e","a","k","d","o","w","n"," ","o","f"," ","t","h",
            "e"," ","s","c","i","e","n","c","e"," ","b","e","h","i","n","d"," ","'">>,
       after |->
          <<"'",".">>],
      [before |->
          <<"B","e","f","o","r","e","/","a","f","t","e","r"," ","p","o","s","t",":"," ","S","h",
            "o","w"," ","a"," ","t","r","a","n","s","f","o","r","m","a","t","i","o","n"," ","j",
            "o","u","r","n","e","y"," ","r","e","l","a","t","e","d"," ","t","o"," ","o","v","e",
            "r","c","o","m","i","n","g"," ","'">>,
       after |->
          <<"'",".">>],
      [before |->
          <<"T","u","t","o","r","i","a","l"," ","r","e","e","l",":"," ","D","e","m","o","n","s",
            "t","r","a","t","e"," ","a"," ","3","-","s","t","e","p"," ","p","r","o","c","e","s",
            "s"," ","v","i","e","w","e","r","s"," ","c","a","n"," ","f","o","l","l","o","w"," ",
            "t","o"," ","o","v","e","r","c","o","m","e"," ","'">>,
       after |->
          <<"'",".">>],
      [before |->
          <<"Q","u","o","t","e"," ","s","e","r","i","e","s",":"," ","S","h","a","r","e"," ","p",
            "o","w","e","r","f","u","l"," ","s","t","a","t","e","m","e","n","t","s"," ","t","h",
            "a","t"," ","r","e","s","o","n","a","t","e"," ","w","i","t","h"," ","p","e","o","p",
            "l","e"," ","e","x","p","e","r","i","e","n","c","i","n","g"," ","'">>,
       after |->
          <<"'",".">>]
    >>

\* the first n elements of list (list[:n])
Take(list, n) == SubSeq(list, 1, IF Len(list) < n THEN Len(list) ELSE n)

\* pain_points[:5]
MaxPromptPoints == 5

\* pain_points[:3]
MaxTemplatePoints == 3

\* a selection that hands every pain point to the prompt
selected_all(pain_points) == pain_points

\* selected_pain_points = pain_points[:5]
selected_pain_points(pain_points) == Take(pain_points, MaxPromptPoints)

\* ', '.join(f'- {point}' for point in selected_pain_points)
PointList(points) == Join([i \in 1..Len(points) |-> <<"-", " ">> \o points[i]], <<",", " ">>)

\* tiktok_prompt
tiktok_prompt(subreddit, pain_points) ==
    TikTokPromptHead \o subreddit \o TikTokPromptMiddle
        \o PointList(selected_pain_points(pain_points)) \o TikTokPromptTail

\* instagram_prompt
instagram_prompt(subreddit, pain_points) ==
    InstagramPromptHead \o subreddit \o InstagramPromptMiddle
        \o PointList(selected_pain_points(pain_points)) \o InstagramPromptTail

Digits == {"0", "1", "2", "3", "4", "5", "6", "7", "8", "9"}

\* re.match(r'^\d+[\.\)]\s', line) or re.match(r'^-\s', line)
IsItemLine(line) ==
    LET other == {i \in 1..Len(line) : line[i] \notin Digits}
        d == IF other = {} THEN Len(line) ELSE (CHOOSE i \in other : \A j \in other : i <= j) - 1
    IN  \/ /\ d >= 1
           /\ Len(line) >= d + 2
           /\ line[d + 1] \in {".", ")"}
           /\ line[d + 2] \in Whitespace
        \/ /\ Len(line) >= 2
           /\ line[1] = "-"
           /\ line[2] \in Whitespace

\* s.split(sep, 1)[-1] for a separator of one character
AfterFirst(s, sep) ==
    LET i == FindFrom(s, sep, 1)
    IN  IF i = 0 THEN s ELSE SubSeq(s, i + 1, Len(s))

\* line.split('.', 1)[-1].split(')', 1)[-1].strip()
ItemText(line) == Strip(AfterFirst(AfterFirst(line, <<".">>), <<")">>))

RECURSIVE ParseLines(_, _, _)
\* the loop of lines 237-247 over the remaining lines: [ideas, current_idea]
ParseLines(lines, ideas, current_idea) ==
    IF lines = <<>> THEN [ideas |-> ideas, current_idea |-> current_idea]
    ELSE LET line == Head(lines)
         IN  IF IsItemLine(line)
                 THEN ParseLines(Tail(lines),
                                 IF current_idea # <<>> THEN Append(ideas, Strip(current_idea))
                                                        ELSE ideas,
                                 ItemText(line))
             ELSE IF current_idea # <<>>
                 THEN ParseLines(Tail(lines), ideas, current_idea \o <<" ">> \o Strip(line))
             ELSE ParseLines(Tail(lines), ideas, current_idea)

\* parse_openai_response(response_text) for a string
ParseText(response_text) ==
    LET loop == ParseLines(Split(Strip(response_text), <<NL>>), <<>>, <<>>)
        ideas == IF loop.current_idea # <<>>
                     THEN Append(loop.ideas, Strip(loop.current_idea))
                     ELSE loop.ideas
        parts == Split(response_text, <<NL, NL>>)
        byParagraph == SelectSeq([i \in 1..Len(parts) |-> Strip(parts[i])], LAMBDA part : part # <<>>)
    IN  IF ideas # <<>> THEN ideas
        ELSE IF byParagraph # <<>> THEN byParagraph
        ELSE <<Strip(response_text)>>

\* parse_openai_response(response_text) for a Python value
parse_openai_response(response_text) ==
    IF response_text.t # "str"
        \* .strip() on a value that is no string
        THEN Raise("AttributeError", <<"AttributeError">>)
        ELSE Ok(ParseText(response_text.v))

\* what one call of the completion service does: it raises, or it answers
\* with a message content
ServiceRaises == [kind |-> "raises"]
ServiceAnswers(content) == [kind |-> "answers", content |-> content]

\* generate_content_ideas_with_openai(subreddit, pain_points, platform) when
\* the two calls of the service do first and second:
\* [res |-> Ok(mapping) or Raise, prompts |-> the prompts sent]
generate_content_ideas_with_openai(subreddit, pain_points, first, second) ==
    LET tiktok == tiktok_prompt(subreddit, pain_points)
        instagram == instagram_prompt(subreddit, pain_points)
    IN  IF first.kind = "raises"
            THEN [res |-> Raise("APIError", <<"APIError">>), prompts |-> <<tiktok>>]
        ELSE IF second.kind = "raises"
            THEN [res |-> Raise("APIError", <<"APIError">>), prompts |-> <<tiktok, instagram>>]
        ELSE LET tiktok_ideas == parse_openai_response(first.content)
                 instagram_ideas == parse_openai_response(second.content)
             IN  [res |-> IF ~tiktok_ideas.ok THEN tiktok_ideas
                          ELSE IF ~instagram_ideas.ok THEN instagram_ideas
                          ELSE Ok([tiktok |-> tiktok_ideas.val, instagram |-> instagram_ideas.val]),
                  prompts |-> <<tiktok, instagram>>]

\* template.format(point=point) for the i-th point (0-based) of the loop
FromTemplate(templates, i, point) ==
    LET template == templates[(i % Len(templates)) + 1]
    IN  template.before \o point \o template.after

\* generate_content_ideas_with_templates(subreddit, pain_points, platform)
generate_content_ideas_with_templates(subreddit, pain_points) ==
    IF pain_points = <<>> THEN CannedIdeas
    ELSE LET used == Take(pain_points, MaxTemplatePoints)
         IN  [tiktok |-> [i \in 1..Len(used) |-> FromTemplate(tiktok_templates, i - 1, used[i])],
              instagram |-> [i \in 1..Len(used) |-> FromTemplate(instagram_templates, i - 1, used[i])]]

\* generate_content_ideas(subreddit, pain_points, platform) with or without
\* an API key: [res, prompts]
generate_content_ideas(subreddit, pain_points, api_key, first, second) ==
    IF pain_points # <<>> /\ api_key
        THEN LET r == generate_content_ideas_with_openai(subreddit, pain_points, first, second)
             IN  IF r.res.ok THEN r
                 ELSE [res |-> Ok(generate_content_ideas_with_templates(subreddit, pain_points)),
                       prompts |-> r.prompts]
        ELSE [res |-> Ok(generate_content_ideas_with_templates(subreddit, pain_points)),
              prompts |-> <<>>]

\* ------------------------------------------------------------------------
\* Inputs of the analyzer calls
\* ------------------------------------------------------------------------

MaxSentences == 2
MaxPosts == 2

\* the text made of the sentences ss, one blank between two
TextOf(ss) == Join([i \in 1..Len(ss) |-> ss[i].text], <<" ">>)

\* the texts examined: [arg, sentences]; None has no sentences
TextInputs ==
    {[arg |-> PyStr(TextOf(ss)), sentences |-> ss] : ss \in SeqUpTo(SentencePool, MaxSentences)}
      \cup {[arg |-> PyNone, sentences |-> <<>>]}

\* posts as a cache file or a caller can hold them: with every key, without
\* some, without any; the same sentence in several fields and posts
SamplePosts ==
    {[title |-> SentHowDoI,
      content |-> SentStruggle \o <<" ">> \o SentNice,
      comments |-> <<[content |-> SentTiredEleven], [content |-> SentStruggle]>>],
     [title |-> SentStruggle,
      content |-> SentTiredLower \o <<" ">> \o SentTiredEleven,
      comments |-> <<>>],
     [content |-> SentHardTo],
     [title |-> SentNice,
      comments |-> <<[author |-> <<"u">>], [content |-> SentHowDoI]>>],
     [id |-> PostIdPrefix \o <<"0">>],
     <<>>}

\* the values handed to process_subreddit_data: None, the empty mapping, a
\* mapping without 'posts', an error result, and mappings with posts
DataInputs ==
    {PyNone,
     PyDict(<<>>),
     PyDict([metadata |-> [total_posts |-> 0]]),
     PyDict(ErrorResult(Exc("Exception", FailedAfterAttemptsText)))}
      \cup {PyDict([posts |-> ps]) : ps \in SeqUpTo(SamplePosts, MaxPosts)}

MaxPoints == 7

\* pain points 'point 1', 'point 2', ...
PointPool == [i \in 1..MaxPoints |-> <<"p", "o", "i", "n", "t", " ", Digit[i + 1]>>]

\* what the first call of the service can do: raise, answer with no content,
\* with a numbered list, with two paragraphs, with the empty string
FirstOutcomes ==
    {ServiceRaises,
     ServiceAnswers(PyNone),
     ServiceAnswers(PyStr(<<"1", ".", " ", "a", NL, "2", ".", " ", "b">>)),
     ServiceAnswers(PyStr(<<"x", NL, NL, "y">>)),
     ServiceAnswers(PyStr(<<>>))}

\* what the second call can do: raise, or answer with a dashed item
SecondOutcomes ==
    {ServiceRaises,
     ServiceAnswers(PyStr(<<"-", " ", "a", NL, "b">>))}

\* the calls generate_content_ideas(subreddit, pain_points): the first n pain
\* points of the pool, without an API key or with one and a service
IdeaInputs ==
    {[op |-> "generate_content_ideas", subreddit |-> <<"x">>,
      pain_points |-> Take(PointPool, n), api_key |-> FALSE,
      first |-> ServiceRaises, second |-> ServiceRaises] : n \in 0..MaxPoints}
      \cup {[op |-> "generate_content_ideas", subreddit |-> <<"x">>,
              pain_points |-> Take(PointPool, n), api_key |-> TRUE,
              first |-> f, second |-> s] :
                n \in 0..MaxPoints, f \in FirstOutcomes, s \in SecondOutcomes}

AnalyzerInputs ==
    {[op |-> "extract_pain_points", arg |-> t.arg, sentences |-> t.sentences] : t \in TextInputs}
      \cup {[op |-> "process_subreddit_data", arg |-> d] : d \in DataInputs}
      \cup IdeaInputs

\*ANALYZER_MORE

VARIABLES
    fs,         \* the cache directory: CacheFiles -> file
    pc,         \* "idle", "fetch" (inside firecrawl_scrape's loop), "returned"
    arg,        \* the arguments of the invocation in progress or last returned
    attempt,    \* the loop variable of firecrawl_scrape
    requests,   \* upstream requests issued by the invocation
    sleeps,     \* the time.sleep calls of the invocation, in order
    lastClass,  \* the class of the invocation's latest upstream answer
    raised,     \* what firecrawl_scrape raised in the invocation, or NoExc
    payload,    \* what firecrawl_scrape returned in the invocation, or PyNone
    saved,      \* the outcome of the invocation's cache write, or "none"
    file0,      \* the invocation's cache file as it was when the call began
    ret,        \* the value the invocation returned
    prev,       \* [ret |-> the previous invocation's result] when that invocation
                \* had the same arguments, found a valid cache file and nothing
                \* happened in between; else NoRet
    nIn,        \* the input of a normaliser call
    nOut,       \* its result
    aIn,        \* the input of an analyzer call
    aOut        \* its result, or the analysis of the value the invocation returned

pipeVars == <<fs, pc, arg, attempt, requests, sleeps, lastClass, raised,
              payload, saved, file0, ret, prev>>
normVars == <<nIn, nOut>>
anaVars == <<aIn, aOut>>
vars == <<pipeVars, normVars, anaVars>>

\* the bookkeeping of an invocation, before any
FreshInvocation ==
    /\ attempt = 0
    /\ requests = 0
    /\ sleeps = <<>>
    /\ lastClass = "none"
    /\ raised = NoExc
    /\ payload = PyNone
    /\ saved = "none"

\* the same, of the invocation a step starts
StartInvocation ==
    /\ attempt' = 0
    /\ requests' = 0
    /\ sleeps' = <<>>
    /\ lastClass' = "none"
    /\ raised' = NoExc
    /\ payload' = PyNone
    /\ saved' = "none"

InitPipeline ==
    /\ fs = [f \in CacheFiles |-> Absent]
    /\ pc = "idle"
    /\ arg = NoArg
    /\ FreshInvocation
    /\ file0 = Absent
    /\ ret = NoRet
    /\ prev = NoRet

\* the scraper runs (no direct normaliser call is being examined)
Scraping == nIn = NoIn /\ aIn = NoIn

\* scrape_subreddit(subreddit, cache=cache) up to its first upstream request:
\* the cache read of lines 39-53, which returns on a hit
Call(subreddit, cache) ==
    LET file == fs[cache_file(subreddit)]
        hit == CacheHit(cache, file)
        again == /\ pc = "returned"
                 /\ arg = [subreddit |-> subreddit, cache |-> cache]
                 /\ arg.cache
                 /\ file0.kind = "valid"
    IN  /\ Scraping
        /\ pc \in {"idle", "returned"}
        /\ arg' = [subreddit |-> subreddit, cache |-> cache]
        /\ file0' = file
        /\ prev' = IF again THEN [ret |-> ret] ELSE NoRet
        /\ StartInvocation
        /\ IF hit
              THEN pc' = "returned" /\ ret' = file.data
              ELSE pc' = "fetch" /\ ret' = NoRet
        /\ aOut' = NoOut
        /\ UNCHANGED <<fs, normVars, aIn>>

\* one upstream request of firecrawl_scrape that does not end the loop: the
\* sleep, and the next iteration
AttemptAgain(resp, jsonErr) ==
    LET it == LoopIteration(resp, attempt, jsonErr)
    IN  /\ Scraping
        /\ pc = "fetch"
        /\ attempt < max_retries
        /\ it.do = "next"
        /\ requests' = requests + 1
        /\ sleeps' = sleeps \o it.slept
        /\ lastClass' = Classify(resp)
        /\ attempt' = attempt + 1
        /\ UNCHANGED <<fs, pc, arg, raised, payload, saved, file0, ret, prev, normVars, anaVars>>

\* one upstream request after which firecrawl_scrape raises, and the except
\* clause of scrape_subreddit
AttemptRaises(resp, jsonErr) ==
    LET it == LoopIteration(resp, attempt, jsonErr)
    IN  /\ Scraping
        /\ pc = "fetch"
        /\ attempt < max_retries
        /\ it.do = "raise"
        /\ requests' = requests + 1
        /\ sleeps' = sleeps \o it.slept
        /\ lastClass' = Classify(resp)
        /\ pc' = "returned"
        /\ raised' = it.exc
        /\ ret' = ErrorResult(it.exc)
        /\ fs' = [fs EXCEPT ![cache_file(arg.subreddit)] = FileAfterRaise(@, it.exc)]
        /\ UNCHANGED <<arg, attempt, payload, saved, file0, prev, normVars, anaVars>>

\* one upstream request after which firecrawl_scrape returns, and the rest of
\* scrape_subreddit: normalise, write the cache when enabled, return
AttemptReturns(resp, outcome) ==
    LET it == LoopIteration(resp, attempt, "ValueError")
        path == cache_file(arg.subreddit)
        after == AfterFetch(it.data, arg.subreddit, arg.cache, fs[path], outcome)
    IN  /\ Scraping
        /\ pc = "fetch"
        /\ attempt < max_retries
        /\ it.do = "return"
        /\ arg.cache \/ outcome = "saved"
        /\ requests' = requests + 1
        /\ sleeps' = sleeps \o it.slept
        /\ lastClass' = Classify(resp)
        /\ pc' = "returned"
        /\ payload' = it.data
        /\ saved' = IF arg.cache THEN outcome ELSE "none"
        /\ ret' = after.ret
        /\ fs' = [fs EXCEPT ![path] = after.file]
        /\ UNCHANGED <<arg, attempt, raised, file0, prev, normVars, anaVars>>

\* the invocation's record is dropped when the cache is touched from outside
Forget ==
    /\ pc' = "idle"
    /\ arg' = NoArg
    /\ StartInvocation
    /\ file0' = Absent
    /\ ret' = NoRet
    /\ prev' = NoRet
    /\ aOut' = NoOut

\* between invocations the cache file is damaged (truncated, half written)
CorruptFile(path) ==
    /\ Scraping
    /\ pc \in {"idle", "returned"}
    /\ fs[path].kind \in {"valid", "unreadable"}
    /\ fs' = [fs EXCEPT ![path] = Corrupt]
    /\ Forget
    /\ UNCHANGED <<normVars, aIn>>

\* between invocations the cache file loses its read permission
ProtectFile(path) ==
    /\ Scraping
    /\ pc \in {"idle", "returned"}
    /\ fs[path].kind \in {"valid", "corrupt"}
    /\ fs' = [fs EXCEPT ![path] = Unreadable]
    /\ Forget
    /\ UNCHANGED <<normVars, aIn>>

\* between invocations the cache file is deleted
RemoveFile(path) ==
    /\ Scraping
    /\ pc \in {"idle", "returned"}
    /\ fs[path].kind # "absent"
    /\ fs' = [fs EXCEPT ![path] = Absent]
    /\ Forget
    /\ UNCHANGED <<normVars, aIn>>

\* the caller hands the value the invocation returned to
\* process_subreddit_data
Analyze ==
    /\ Scraping
    /\ pc = "returned"
    /\ aOut = NoOut
    /\ aOut' = Done(process_subreddit_data(PyDict(ret)))
    /\ UNCHANGED <<pipeVars, normVars, aIn>>

\* the responses a well-formed request can get that are not errors
ReturningResponses == {Http200(b) : b \in OkPayloads}

NextPipeline ==
    \/ \E s \in Subreddits, c \in BOOLEAN : Call(s, c)
    \/ \E r \in Responses \ ReturningResponses, j \in JsonErrorKinds : AttemptAgain(r, j)
    \/ \E r \in Responses \ ReturningResponses, j \in JsonErrorKinds : AttemptRaises(r, j)
    \/ \E r \in ReturningResponses, o \in SaveOutcomes : AttemptReturns(r, o)
    \/ \E f \in CacheFiles : CorruptFile(f)
    \/ \E f \in CacheFiles : ProtectFile(f)
    \/ \E f \in CacheFiles : RemoveFile(f)
    \/ Analyze



\* one call process_firecrawl_response(raw_data, subreddit)
ProcessResponse ==
    /\ nIn.op = "process"
    /\ nOut = NoOut
    /\ nOut' = Done(Ok(process_firecrawl_response(nIn.arg, nIn.subreddit)))
    /\ UNCHANGED <<nIn, pipeVars, anaVars>>

\* one call extract_posts_from_markdown(markdown_content, subreddit)
ExtractPosts ==
    /\ nIn.op = "extract"
    /\ nOut = NoOut
    /\ nOut' = Done(extract_posts_from_markdown(nIn.arg, nIn.subreddit))
    /\ UNCHANGED <<nIn, pipeVars, anaVars>>

NextNormalize == ProcessResponse \/ ExtractPosts

\* one call extract_pain_points(text)
ExtractPainPoints ==
    /\ aIn.op = "extract_pain_points"
    /\ aOut = NoOut
    /\ aOut' = Done(extract_pain_points(aIn.arg))
    /\ UNCHANGED <<aIn, pipeVars, normVars>>

\* one call process_subreddit_data(data)
ProcessSubredditData ==
    /\ aIn.op = "process_subreddit_data"
    /\ aOut = NoOut
    /\ aOut' = Done(process_subreddit_data(aIn.arg))
    /\ UNCHANGED <<aIn, pipeVars, normVars>>

\* one call generate_content_ideas(subreddit, pain_points)
GenerateContentIdeas ==
    /\ aIn.op = "generate_content_ideas"
    /\ aOut = NoOut
    /\ LET r == generate_content_ideas(aIn.subreddit, aIn.pain_points, aIn.api_key,
                                       aIn.first, aIn.second)
       IN  aOut' = [done |-> TRUE, res |-> r.res, prompts |-> r.prompts]
    /\ UNCHANGED <<aIn, pipeVars, normVars>>

NextAnalyze == ExtractPainPoints \/ ProcessSubredditData \/ GenerateContentIdeas

\* either the scraper runs against its cache and its upstream and its caller
\* analyzes what it returns (nIn = NoIn and aIn = NoIn), or one direct call of
\* a normaliser function or of an analyzer function on a drawn input is
\* examined
Init ==
    /\ InitPipeline
    /\ nIn \in NormInputs \cup {NoIn}
    /\ aIn \in IF nIn = NoIn THEN AnalyzerInputs \cup {NoIn} ELSE {NoIn}
    /\ nOut = NoOut
    /\ aOut = NoOut

Next == NextPipeline \/ NextNormalize \/ NextAnalyze

Spec == Init /\ [][Next]_vars

\* ------------------------------------------------------------------------
\* Properties
\* ------------------------------------------------------------------------

\* the literal payloads of the tests and of the scenario are the renderings
\* of their section structures
RenderMatchesLiterals ==
    /\ Render(TestPayloadShape) = TestPayloadText
    /\ Render(SpecScenarioShape) = SpecScenarioText

\* the invocation has returned
Returned == pc = "returned"

\* the cache file of the invocation
Path == cache_file(arg.subreddit)

\* the invocation ran with cache=True and found a cache file holding valid JSON
ValidCacheAtCall == arg.cache /\ file0.kind = "valid"

\* what process_firecrawl_response makes of the invocation's payload
Fresh == process_firecrawl_response(payload, clean_subreddit(arg.subreddit))

HasError(r) == "error" \in DOMAIN r

\* C1: a call with cache=True on an identifier whose cache file holds valid
\* JSON returns exactly the cached result, issues no upstream request and
\* leaves the cache file as it was; a second such call right after it returns
\* the same result.
C1_CacheHitIdempotent ==
    (Returned /\ ValidCacheAtCall) =>
        /\ ret = file0.data
        /\ requests = 0
        /\ fs[Path] = file0
        /\ (prev # NoRet => ret = prev.ret)

\* C1 witness: the second of two consecutive cache hits, returning posts
C1_Witness ==
    /\ Returned /\ ValidCacheAtCall
    /\ prev # NoRet
    /\ ~HasError(ret) /\ Len(ret.posts) = 2

\* C2 as stated: with cache=True and a cache file that does not deserialize,
\* the call goes on to the upstream (at least one request), and when the fetch
\* succeeds it returns the freshly normalised result.
C2_CorruptCacheRecovery ==
    (Returned /\ arg.cache /\ file0.kind = "corrupt") =>
        /\ requests >= 1
        /\ (lastClass = "ok" => ret = Fresh)

\* C3 as stated: once the fetch and the normalisation succeeded, the call
\* returns the normalised result with no error set, whatever the cache write
\* did.
C3_SaveIsBestEffort ==
    (Returned /\ lastClass = "ok") => (ret = Fresh /\ ~HasError(ret))

\* the classes of answer C4 lets a further attempt follow: a rate-limit
\* signal and a transient failure of the transport (a connection error or
\* timeout, and, read generously, a 5xx status or an undecodable body)
RetryableClasses == {"rate_limit", "network", "server", "notjson"}

\* C4 as stated: a call issues at most 3 requests and ends; a further attempt
\* follows only a rate-limit signal or a transient network failure; an
\* upstream-reported error that is no rate-limit signal ends the call with a
\* raise after that one attempt.
C4_BoundedRetry ==
    /\ requests <= max_retries
    /\ pc = "fetch" => (requests = attempt /\ attempt < max_retries)
    /\ (pc = "fetch" /\ attempt > 0) => lastClass \in RetryableClasses
    /\ lastClass = "upstream_error" => (Returned /\ raised.type = "Exception")
    /\ lastClass = "ok" => (Returned /\ raised = NoExc)

\* C5 as stated: an upstream 403 or 404 ends the call at once, after exactly
\* one request and no sleep, with an access-failure error.
C5_AccessFailureNotRetried ==
    lastClass = "access" =>
        /\ Returned
        /\ requests = 1
        /\ sleeps = <<>>
        /\ raised.type = "HTTPError"

\* C6: every value scrape_subreddit returns, cache hits included, has either
\* no error key and both posts and metadata, or an error and no posts.
C6_ErrorPostsConsistency ==
    Returned =>
        \/ ~HasError(ret) /\ {"posts", "metadata"} \subseteq DOMAIN ret
        \/ HasError(ret) /\ ret.posts = <<>>

\* C6 witness: an error result returned after the cache write failed half way
C6_Witness ==
    /\ Returned
    /\ HasError(ret)
    /\ saved = "dump_raises"
    /\ fs[Path] = Corrupt

\* metadata.total_posts == len(posts) and metadata.subreddit is the identifier
MetadataConsistent(r, name) ==
    /\ r.metadata.total_posts = Len(r.posts)
    /\ r.metadata.subreddit = name

\* C7: for every raw payload the result of process_firecrawl_response has
\* total_posts equal to the number of posts and subreddit equal to the
\* identifier it was given; so has every error-free result scrape_subreddit
\* returns, for the identifier as resolved (the 'r/' prefix removed).
C7_MetadataConsistency ==
    /\ (nIn.op = "process" /\ nOut # NoOut) => MetadataConsistent(nOut.res.val, nIn.subreddit)
    /\ (Returned /\ ~HasError(ret)) => MetadataConsistent(ret, clean_subreddit(arg.subreddit))

\* C7 witness: process_firecrawl_response has normalised a two-section blob
C7_Witness ==
    /\ nIn.op = "process" /\ nOut # NoOut
    /\ Len(nIn.shape) = 2
    /\ nOut.res.val.metadata.total_posts = 2

\* the posts are those of the section structure: as many, in order, with the
\* structure's titles and numbers of comments
PostsMatchShape(posts, shape) ==
    /\ Len(posts) = Len(shape)
    /\ \A i \in 1..Len(shape) :
          /\ posts[i].title = shape[i].title
          /\ Len(posts[i].comments) = Len(shape[i].comments)

\* C8 as stated: a blob of K sections, each a '## ' heading line, body lines
\* and c_i '### ' blocks, normalises to K posts with the sections' titles and
\* c_i comments, whatever its length (every section has at least one body line).
C8_MarkdownNormalization ==
    (nOut # NoOut /\ nIn.shape # <<>> /\ \A i \in 1..Len(nIn.shape) : nIn.shape[i].body # <<>>) =>
        /\ nOut.res.ok
        /\ PostsMatchShape(IF nIn.op = "process" THEN nOut.res.val.posts ELSE nOut.res.val,
                           nIn.shape)

\* the five placeholder posts: ids post_0..post_4, two comments each
IsPlaceholders(posts) ==
    /\ Len(posts) = 5
    /\ \A k \in 1..5 : posts[k].id = PostIdPrefix \o <<Digit[k]>> /\ Len(posts[k].comments) = 2

MalformedPayload(data) ==
    \/ data.t # "dict"
    \/ "content" \notin DOMAIN data.v
    \/ Len(data.v.content) = 0
    \/ data.v.content[1].t # "dict"
    \/ "text" \notin DOMAIN data.v.content[1].v

\* C10 as stated: on a payload that lacks the expected shape the call returns
\* an error or the placeholder posts, never an error-free result with zero
\* posts, and no such result is in the cache.
C10_MalformedPayloadSurfaced ==
    (Returned /\ lastClass = "ok" /\ MalformedPayload(payload)) =>
        /\ HasError(ret) \/ IsPlaceholders(ret.posts)
        /\ ~(fs[Path].kind = "valid" /\ fs[Path].data.posts = <<>>)

\* firecrawl_scrape raised in the invocation
FetchRaised == Returned /\ raised # NoExc

\* C11: whenever firecrawl_scrape raises (the third attempt failed, or an
\* upstream error that is not retried), scrape_subreddit returns the error
\* result (error set to the exception's text, no posts: neither placeholders
\* nor the cached data), makes no cache write, and the cache file of the
\* identifier is what it was when the call began; no cache file ever holds an
\* error result.
C11_TransportFailureSurfaced ==
    /\ FetchRaised =>
          /\ ret = [posts |-> <<>>, error |-> raised.msg]
          /\ saved = "none"
          /\ fs[Path] = file0
    /\ \A f \in CacheFiles : fs[f].kind = "valid" => ~HasError(fs[f].data)

\* C11 witness: a call with cache=False over an existing valid cache entry
\* whose three attempts all failed
C11_Witness ==
    /\ FetchRaised
    /\ requests = max_retries
    /\ ~arg.cache
    /\ file0.kind = "valid" /\ Len(file0.data.posts) > 0

\* the invocation fetched successfully: firecrawl_scrape returned a payload
FetchSucceeded == Returned /\ lastClass = "ok"

\* C12 as stated: after an invocation that fetched successfully (cache=False,
\* or no cache file, or a corrupt one) the cache entry of the identifier is
\* exactly the result the invocation returned, whatever it held before, so the
\* next call with cache=True finds and returns that result.
C12_CacheSupersession ==
    FetchSucceeded =>
        /\ fs[Path] = Valid(ret)
        /\ CacheHit(TRUE, fs[Path])

\* the identifiers that resolve to the same name as s
SameSource(s) == {t \in Subreddits : clean_subreddit(t) = clean_subreddit(s)}

\* C13 as stated: the cache file path, the upstream URL and metadata.subreddit
\* all come from the identifier with its 'r/' prefix removed, so 'r/X' and 'X'
\* share one cache entry: once a call has cached its result, a call with
\* cache=True on any identifier of the same source is a cache hit returning it.
C13_IdentifierResolution ==
    (Returned /\ saved = "saved") =>
        /\ ret.metadata.subreddit = clean_subreddit(arg.subreddit)
        /\ \A t \in SameSource(arg.subreddit) :
              /\ reddit_url(t) = reddit_url(arg.subreddit)
              /\ cache_file(t) = Path
              /\ CacheHit(TRUE, fs[cache_file(t)])
              /\ fs[cache_file(t)].data = ret

C20_NoSleepBeforeRaise ==
    /\ Len(sleeps) <= max_retries - 1
    /\ Returned => Len(sleeps) <= requests - 1 \/ requests = 0

\* an analyzer call that returns a list of pain points has returned:
\* extract_pain_points or process_subreddit_data on a drawn input, or
\* process_subreddit_data on what scrape_subreddit returned
ListReturned ==
    /\ aOut # NoOut
    /\ aIn.op \in {"none", "extract_pain_points", "process_subreddit_data"}

\* the list it returned
Points == aOut.res.val

\* process_subreddit_data was given a mapping
MappingGiven ==
    /\ ListReturned
    /\ aIn = NoIn \/ (aIn.op = "process_subreddit_data" /\ aIn.arg.t = "dict")

\* the mapping
DataGiven == IF aIn = NoIn THEN ret ELSE aIn.arg.v

\* it has posts
PostsGiven == MappingGiven /\ "posts" \in DOMAIN DataGiven

NoDuplicates(list) == \A i, j \in 1..Len(list) : i # j => list[i] # list[j]

\* C14: the list extract_pain_points returns for a text, and the list
\* process_subreddit_data returns for a result, hold no string twice (exact
\* equality), also when one sentence stands in several posts and fields.
C14_NoDuplicatePoints ==
    ListReturned => (aOut.res.ok /\ NoDuplicates(Points))

\* C14 witness: process_subreddit_data has returned for two posts that share a
\* point, which the list holds once
C14_Witness ==
    /\ PostsGiven /\ aIn.op = "process_subreddit_data"
    /\ Len(DataGiven.posts) = 2
    /\ \E i \in 1..Len(Points) :
          /\ InList(Points[i], PostPoints(DataGiven.posts[1]))
          /\ InList(Points[i], PostPoints(DataGiven.posts[2]))

\* C15: every entry of a list returned by extract_pain_points or by
\* process_subreddit_data is longer than 10 characters, a sentence of the
\* keyword pass as well as a group of the pattern pass.
C15_MinimumLength ==
    (ListReturned /\ aOut.res.ok) => \A i \in 1..Len(Points) : Len(Points[i]) > 10

\* C15 witness: of a keyword sentence of 10 characters and one of 11 the call
\* returned the second only
C15_Witness ==
    /\ ListReturned /\ aIn.op = "extract_pain_points"
    /\ aIn.arg = PyStr(SentTiredTen \o <<" ">> \o SentTiredEleven)
    /\ Points = <<SentTiredEleven>>

\* the first index of x in list
FirstIndex(list, x) == CHOOSE i \in 1..Len(list) : list[i] = x /\ \A j \in 1..(i - 1) : list[j] # x

\* r holds the elements of list once each, in the order of their first
\* occurrences in list
IsFirstOccurrences(r, list) ==
    /\ NoDuplicates(r)
    /\ {r[i] : i \in 1..Len(r)} = {list[i] : i \in 1..Len(list)}
    /\ \A i, j \in 1..Len(r) : i < j => FirstIndex(list, r[i]) < FirstIndex(list, r[j])

\* what the two passes find in a text made of the sentences ss: the sentences
\* with a keyword in text order, then for each pattern in pattern order the
\* groups it takes in text order
MergedPasses(ss) ==
    LET withKeyword == SelectSeq(ss, LAMBDA s : s.keyword)
        byPattern(k) == SelectSeq(ss, LAMBDA s : s.pattern = k)
    IN  [i \in 1..Len(withKeyword) |-> withKeyword[i].text]
          \o Flatten([k \in 1..Len(pain_point_patterns) |->
                        [i \in 1..Len(byPattern(k)) |-> byPattern(k)[i].group]])

\* the texts process_subreddit_data visits in a post: title, content, then the
\* content of each comment
FieldTexts(post) ==
    (IF "title" \in DOMAIN post THEN <<post.title>> ELSE <<>>)
      \o (IF "content" \in DOMAIN post THEN <<post.content>> ELSE <<>>)
      \o (IF "comments" \in DOMAIN post
              THEN LET with == SelectSeq(post.comments, LAMBDA c : "content" \in DOMAIN c)
                   IN  [i \in 1..Len(with) |-> with[i].content]
              ELSE <<>>)

\* the concatenation of extract_pain_points over the texts visited in posts
VisitedPoints(posts) ==
    LET texts == Flatten([p \in 1..Len(posts) |-> FieldTexts(posts[p])])
    IN  Flatten([t \in 1..Len(texts) |-> extract_pain_points(PyStr(texts[t])).val])

\* C16: process_subreddit_data returns the first occurrences, in order, of the
\* concatenation over the posts in listing order of extract_pain_points(title),
\* extract_pain_points(content) and extract_pain_points of each comment's
\* content; extract_pain_points returns the first occurrences, in order, of
\* the keyword sentences in text order followed by the pattern groups in
\* pattern order, those of more than 10 characters.
C16_ExtractionOrder ==
    /\ PostsGiven =>
          IsFirstOccurrences(Points, VisitedPoints(DataGiven.posts))
    /\ (ListReturned /\ aIn.op = "extract_pain_points") =>
          IsFirstOccurrences(Points,
                             SelectSeq(MergedPasses(aIn.sentences), LAMBDA p : Len(p) > 10))

\* C16 witness: a post whose title, content and comments all yield points, one
\* of them twice
C16_Witness ==
    /\ PostsGiven /\ aIn.op = "process_subreddit_data"
    /\ Len(DataGiven.posts) = 1
    /\ Points = <<SentHowDoIGroup, SentStruggle, SentStruggleGroup, SentTiredEleven>>

IdeasReturned == aOut # NoOut /\ aIn.op = "generate_content_ideas"

\* the texts that left the call: the prompts sent and the ideas returned
TextsOut == aOut.prompts \o aOut.res.val.tiktok \o aOut.res.val.instagram

\* C18: generate_content_ideas does not raise; it returns the canned mapping
\* exactly when the list of pain points is empty and otherwise a mapping with
\* at least one idea for each platform; the prompts it sends and the mapping
\* it returns are those of the first 5 pain points alone, and no pain point
\* after the fifth occurs in a prompt or an idea, with or without the service
\* and after a failure of the service.
C18_SynthesizerInputBound ==
    IdeasReturned =>
        /\ aOut.res.ok
        /\ (aOut.res.val = CannedIdeas) <=> (aIn.pain_points = <<>>)
        /\ aIn.pain_points # <<>> =>
              (Len(aOut.res.val.tiktok) > 0 /\ Len(aOut.res.val.instagram) > 0)
        /\ LET r == generate_content_ideas(aIn.subreddit, Take(aIn.pain_points, 5),
                                          aIn.api_key, aIn.first, aIn.second)
           IN  aOut.res = r.res /\ aOut.prompts = r.prompts
        /\ \A i \in 6..Len(aIn.pain_points), t \in 1..Len(TextsOut) :
              ~Contains(TextsOut[t], aIn.pain_points[i])

\* C18 witness: with more than 5 pain points the service got a prompt with
\* the fifth, failed, and the ideas came from the templates
C18_Witness ==
    /\ IdeasReturned
    /\ Len(aIn.pain_points) > 5
    /\ aIn.api_key /\ aIn.first = ServiceRaises
    /\ Len(aOut.prompts) = 1 /\ Contains(aOut.prompts[1], aIn.pain_points[5])
    /\ Len(aOut.res.val.tiktok) = 3
====
